---- MODULE Spec2Model ----
(***************************************************************************)
(* Model of OpenMSUtils' indexed mzML reader (MZMLUtils/MZMLReader.py) and *)
(* of the XIC extractor built on it (XICSExtractor.py).                    *)
(*                                                                         *)
(* Numbers.  Retention times are integers counting ticks of 1/RtScale      *)
(* second; m/z values are integers in a mass unit small enough that the    *)
(* ppm window of a target is a few units wide.  Float rounding is not      *)
(* modelled: comparisons are exact.                                        *)
(*                                                                         *)
(* File.  An indexed file is a sequence of index entries; entry k owns the *)
(* byte region [offset_k, offset_k+1).  A region holds either one          *)
(* <spectrum ...> ... </spectrum> element or well-formed XML without any   *)
(* spectrum tag (a comment left where a spectrum was removed): the index   *)
(* still lists it, and the reader's `spectrum_start >= 0` test is there    *)
(* for it.  The whole file stays well-formed XML, as etree.parse demands.  *)
(* An index entry may also be stale: its offset lies past the end of the   *)
(* file, by one byte or by more, and no region belongs to it.  The file    *)
(* has no chromatogram index, so the end offset is the size of the file.   *)
(*                                                                         *)
(* Binary arrays.  A spectrum carries the peaks its m/z and intensity      *)
(* arrays decode to, and the state of those arrays: decodable, absent, or  *)
(* undecodable (base64 text with wrong padding, a zlib stream that does    *)
(* not inflate, a byte length that is no multiple of the element width).   *)
(***************************************************************************)
EXTENDS Integers, Sequences, FiniteSets, TLC

(* ---------------------------- bounds ----------------------------------- *)
MaxEntries == 3        \* index entries of a file
MaxRt == 1             \* largest scan start time written in seconds (ticks)
MaxIndexLen == 12      \* index entries when only the chunking is looked at
MaxWorkers == 8        \* largest num_processes when only the chunking is looked at
MaxStored == 3         \* spectra of a file whose store is queried
MaxPeaks == 2          \* peaks of the spectrum when only peak matching is looked at
MaxIsotopes == 2       \* largest num_isotopes asked for
MaxLadder == 4         \* largest count when only the isotope ladder is looked at
SeekBelow == 2         \* seconds below zero after which the bucket search is cut off
MaxLoads == 2          \* calls of load_mzml on one extractor
RtScale == 2           \* ticks per second (model resolution)
Levels == {1, 2}
Workers == {1, 2, 4, 8}
Units == {"second", "minute", "millisecond"}

(* ---------------------------- helpers ---------------------------------- *)
Max(a, b) == IF a >= b THEN a ELSE b
Min(a, b) == IF a <= b THEN a ELSE b

RECURSIVE Concat(_)
Concat(ss) == IF ss = <<>> THEN <<>> ELSE Head(ss) \o Concat(Tail(ss))

\* Python slice s[lo:hi] on a 0-based sequence (0 <= lo, hi).
Slice(s, lo, hi) ==
    LET h == Min(hi, Len(s))
    IN  IF lo >= h THEN <<>> ELSE SubSeq(s, lo + 1, h)

(* ---------------------------- the file --------------------------------- *)
NoWindow == <<0, 0>>     \* Precursor(): isolation_window = (0.0, 0.0)
Gap == [kind |-> "gap", level |-> 0, value |-> 0, unit |-> "second",
        iso |-> NoWindow, binary |-> "ok", peaks |-> <<>>]

\* scan start times as written in the file: a value and its unit
ScanTimes ==
    {[value |-> v, unit |-> "second"] : v \in 0..MaxRt}
        \cup {[value |-> 1, unit |-> "minute"],
              [value |-> 1000, unit |-> "millisecond"]}

SpectrumEntries ==
    {[kind |-> "spectrum", level |-> l, value |-> t.value, unit |-> t.unit,
      iso |-> NoWindow, binary |-> "ok", peaks |-> <<>>] :
        l \in Levels, t \in ScanTimes}

Files == UNION {[1..n -> SpectrumEntries \cup {Gap}] : n \in 0..MaxEntries}

RegionLen == 2         \* bytes of a region (one byte per tag or filler)
Junk == [t |-> "junk", rec |-> 0]

\* stale index entries, and how far past the end of the file they point
StaleKinds == {"beyond", "far_beyond"}
Past(kind) == IF kind = "beyond" THEN 1 ELSE RegionLen

\* the bytes of entry k's region; a stale entry has none
Region(f, k) ==
    CASE f[k].kind = "spectrum" ->
             <<[t |-> "open", rec |-> k]>> \o [i \in 1..(RegionLen - 2) |-> Junk]
                 \o <<[t |-> "close", rec |-> k]>>
      [] f[k].kind \in StaleKinds -> <<>>
      [] OTHER -> [i \in 1..RegionLen |-> Junk]

\* the bytes of the file: the regions, then the trailer (index list, closing tags)
FileBytes(f) == Concat([k \in 1..Len(f) |-> Region(f, k)]) \o <<Junk>>

\* the mzML Spectrum object built from the element of entry k
SpectrumOf(f, k) ==
    [id |-> k, level |-> f[k].level, value |-> f[k].value, unit |-> f[k].unit,
     iso |-> f[k].iso, binary |-> f[k].binary, peaks |-> f[k].peaks]

(* ------------------------- MZMLReader ---------------------------------- *)
\* the text of the k-th <offset> of the spectrum index: where the entry's
\* region starts, or a position past the end of the file for a stale entry
Offset(f, k) ==
    IF f[k].kind \in StaleKinds
    THEN Len(FileBytes(f)) + Past(f[k].kind)
    ELSE RegionLen * Cardinality({j \in 1..(k - 1) : f[j].kind \notin StaleKinds})

\* _get_offset_list: the spectrum index and the end offset (file size)
GetOffsetList(f) ==
    [index_list |-> [k \in 1..Len(f) |-> [idRef |-> k, offset |-> Offset(f, k)]],
     end_offset |-> Len(FileBytes(f))]

\* chunk_size = max(1, len(index_list) // num_processes)
ChunkSize(n, w) == Max(1, n \div w)

\* [index_list[i:i + chunk_size] for i in range(0, len(index_list), chunk_size)]
MakeChunksNoTail(index_list, w) ==
    LET n  == Len(index_list)
        cs == ChunkSize(n, w)
    IN  [c \in 1..(n \div cs) |-> Slice(index_list, (c - 1) * cs, (c - 1) * cs + cs)]
MakeChunks(index_list, w) ==
    LET n  == Len(index_list)
        cs == ChunkSize(n, w)
        nc == (n + cs - 1) \div cs
    IN  [c \in 1..nc |-> Slice(index_list, (c - 1) * cs, (c - 1) * cs + cs)]

\* file.read(length) on a buffered binary file raises ValueError for a
\* negative length other than -1
ReadRaises(length) == length < -1

\* file.seek(offset); file.read(length): reading stops at the end of the
\* file, and length -1 reads up to it
FileRead(bytes, offset, length) ==
    IF length < 0 THEN Slice(bytes, offset, Len(bytes))
    ELSE Slice(bytes, offset, offset + length)

\* data.find(tag): 0-based position of the first tag, -1 when absent
Find(data, tag) ==
    LET hits == {i \in 1..Len(data) : data[i].t = tag}
    IN  IF hits = {} THEN -1
        ELSE (CHOOSE i \in hits : \A j \in hits : i <= j) - 1

\* read_length of entry i (1-based) of a chunk
ReadLength(chunk, i, end_offset) ==
    IF i < Len(chunk)
    THEN chunk[i + 1].offset - chunk[i].offset
    ELSE end_offset - chunk[i].offset

\* etree.fromstring(spectrum_data) succeeds on exactly one complete element
WellFormed(sd) ==
    /\ Len(sd) >= 2
    /\ sd[1].t = "open"
    /\ sd[Len(sd)].t = "close"
    /\ \A i \in 2..(Len(sd) - 1) : sd[i].t = "junk"

\* One iteration of the loop of _parse_spectra_chunk: the spectra it appends.
\* When no closing tag is found, find gives -1 and spectrum_end is 10 bytes,
\* shorter than any element: the slice never parses.
ParseData(f, data) ==
    LET spectrum_start == Find(data, "open")
        close_at       == Find(data, "close")
        spectrum_data  == IF close_at = -1 THEN <<>>
                          ELSE Slice(data, spectrum_start, close_at + 1)
    IN  IF spectrum_start >= 0 /\ WellFormed(spectrum_data)
        THEN <<SpectrumOf(f, spectrum_data[1].rec)>>
        ELSE <<>>

\* _parse_spectra_chunk, entries i..len(chunk) of the chunk
RECURSIVE ParseChunkFrom(_, _, _, _)
ParseChunkFrom(f, chunk, end_offset, i) ==
    IF i > Len(chunk) THEN <<>>
    ELSE ParseData(f, FileRead(FileBytes(f), chunk[i].offset,
                               ReadLength(chunk, i, end_offset)))
             \o ParseChunkFrom(f, chunk, end_offset, i + 1)

ParseSpectraChunk(f, chunk, end_offset) == ParseChunkFrom(f, chunk, end_offset, 1)

\* list(executor.map(...)): the order in which the chunk results are gathered
GatherOrderCompletion(nc, finished) == finished
GatherOrder(nc, finished) == [c \in 1..nc |-> c]

\* list(executor.map(...)) returns once every chunk has returned
JoinReadyAny(st) == TRUE
JoinReady(st) == \A c \in DOMAIN st : st[c] = "done"

\* what _parse_spectra_parallel assigns to run.spectra_list with w workers
ParseSpectraParallel(f, w) ==
    LET ol == GetOffsetList(f)
        ch == MakeChunks(ol.index_list, w)
    IN  Concat([c \in 1..Len(ch) |-> ParseSpectraChunk(f, ch[c], ol.end_offset)])

(* ------------------------- SpectraConverter ---------------------------- *)
\* scan start time converted to seconds (minutes * 60, milliseconds / 1000)
RetentionTime(value, unit) ==
    CASE unit = "minute"      -> value * 60
      [] unit = "millisecond" -> value \div 1000
      [] OTHER                -> value

\* the states of the binary arrays on which b64decode, zlib.decompress or
\* struct.unpack raises
Undecodable == {"bad_padding", "bad_inflate", "bad_length"}
DecodeRaises(sp) == sp.binary \in Undecodable

\* the peak loop: every (mz, intensity) pair of the decoded arrays is added,
\* in array order; without both arrays the record keeps its empty peak list
DecodePeaks(sp) == IF sp.binary = "ok" THEN sp.peaks ELSE <<>>

\* _mzml_to_msobject, when the arrays decode
ToMSObject(sp) ==
    [id |-> sp.id, level |-> sp.level,
     retention_time |-> RetentionTime(sp.value, sp.unit),
     isolation_window |-> sp.iso, peaks |-> DecodePeaks(sp)]

(* ------------------------- XICSExtractor.load_mzml ---------------------- *)
\* `self.ms_objects = []` (likewise ms1, ms2) before the conversion loop
\* appends: the list holds the appended records only
RebuiltOnto(old, appended) == old \o appended
Rebuilt(old, appended) == appended

\* the records of a list with the given MS level, in list order
OfLevel(objs, l) == SelectSeq(objs, LAMBDA o : o.level = l)

\* list.sort(key=retention_time): stable insertion into a sorted list
RECURSIVE InsertByRt(_, _)
InsertByRt(sorted, o) ==
    IF sorted = <<>> THEN <<o>>
    ELSE IF sorted[Len(sorted)].retention_time <= o.retention_time
         THEN Append(sorted, o)
         ELSE Append(InsertByRt(SubSeq(sorted, 1, Len(sorted) - 1), o),
                     sorted[Len(sorted)])

RECURSIVE SortFrom(_, _)
SortFrom(objs, acc) ==
    IF objs = <<>> THEN acc ELSE SortFrom(Tail(objs), InsertByRt(acc, Head(objs)))

SortByRtNone(objs) == objs
SortByRt(objs) == SortFrom(objs, <<>>)

\* int(x) for a time in ticks: truncation toward zero to whole seconds
Second(rt) == IF rt >= 0 THEN rt \div RtScale ELSE -((-rt) \div RtScale)

\* the loop that fills ms2_objects_indices, positions index..len(ms2)-1 (0-based)
RECURSIVE IndexFrom(_, _, _)
IndexFrom(ms2, index, indices) ==
    IF index >= Len(ms2) THEN indices
    ELSE LET second == Second(ms2[index + 1].retention_time)
         IN  IF second \notin DOMAIN indices
             THEN IndexFrom(ms2, index + 1, indices @@ (second :> index))
             ELSE IF ms2[index + 1].retention_time
                         < ms2[indices[second] + 1].retention_time
                  THEN IndexFrom(ms2, index + 1, [indices EXCEPT ![second] = index])
                  ELSE IndexFrom(ms2, index + 1, indices)

BuildIndicesLast(ms2) ==
    [b \in {Second(ms2[i].retention_time) : i \in 1..Len(ms2)} |->
        (CHOOSE i \in 1..Len(ms2) :
            /\ Second(ms2[i].retention_time) = b
            /\ \A j \in 1..Len(ms2) : Second(ms2[j].retention_time) = b => j <= i) - 1]
BuildIndices(ms2) == IndexFrom(ms2, 0, <<>>)

(* ------------------------- state ---------------------------------------- *)
VARIABLES
    file,                 \* the mzML file being loaded (its index entries)
    root,                 \* what the root element of the file holds
    parallel,             \* the reader's `parallel` argument
    num_processes,        \* mp.cpu_count() of the machine
    pc,                   \* where load_mzml stands
    chunks,               \* the chunks handed to executor.map
    cstate,               \* per chunk: "queued", "running", "done"
    cpos,                 \* per chunk: entries of the chunk already parsed
    cres,                 \* per chunk: the spectra list of _parse_spectra_chunk
    reads,                \* every file.read so far: chunk, entry, byte range
    finished,             \* the chunks in the order they returned
    spectra_list,         \* mzml_obj.run.spectra_list
    ms_objects, ms1_objects, ms2_objects, ms2_objects_indices,
    op,                   \* the extraction method last called, "none" before
    xpc,                  \* where that call stands
    target,               \* its PolymerInfo argument
    start_second,         \* _filter_ms2_by_rt_and_precursor: the bucket looked up
    filtered_ms2,         \* what _filter_ms2_by_rt_and_precursor returned
    num_isotopes,         \* the num_isotopes argument of the call
    isotope_mzs,          \* what _calculate_isotope_mzs returned
    raised,               \* the exception the call raised, "" when none
    xic_results,          \* the XICResult list the call returned
    examined,             \* the positions of ms2 the filter's loop looked at
    history,              \* the store as each completed load_mzml left it
    conv_pc,              \* SpectraConverter: where the conversion stands
    conv_in,              \* the object handed to to_spectra or to_msobject
    conv_spectrum,        \* the mzML Spectrum that to_spectra returned
    conv_out,             \* what to_msobject returned
    conv_raised,          \* the exception to_msobject raised, "" when none
    wr_pc,                \* MZMLWriter.write: where the call stands
    wr_spectra,           \* the spectra of the run handed to write
    wr_file,              \* the bytes of the file that write left
    wr_index,             \* the <offset> entries of its spectrum index
    wr_read,              \* what the indexed reader returns for that file
    rust_peaks,           \* MSObjectRust: the peak list of _rust_spectrum
    python_peaks_cache,   \* MSObjectRust._python_peaks_cache
    cache_valid,          \* MSObjectRust._cache_valid
    rust_op,              \* the method of MSObjectRust last called
    served                \* what the `peaks` property last returned

vars == <<file, root, parallel, num_processes, pc, chunks, cstate, cpos, cres, reads,
          finished, spectra_list, ms_objects, ms1_objects, ms2_objects,
          ms2_objects_indices, op, xpc, target, start_second, filtered_ms2,
          num_isotopes, isotope_mzs, raised, xic_results, examined, history,
          conv_pc, conv_in, conv_spectrum, conv_out, conv_raised,
          wr_pc, wr_spectra, wr_file, wr_index, wr_read,
          rust_peaks, python_peaks_cache, cache_valid, rust_op, served>>

fileVars   == <<file, root, parallel, num_processes>>
convVars   == <<conv_pc, conv_in, conv_spectrum, conv_out, conv_raised>>
writerVars == <<wr_pc, wr_spectra, wr_file, wr_index, wr_read>>
rustVars   == <<rust_peaks, python_peaks_cache, cache_valid, rust_op, served>>
libVars    == <<convVars, writerVars, rustVars>>

readerVars == <<chunks, cstate, cpos, cres, reads, finished, spectra_list>>
storeVars  == <<ms_objects, ms1_objects, ms2_objects, ms2_objects_indices>>
xicVars    == <<op, xpc, target, start_second, filtered_ms2, num_isotopes, isotope_mzs,
                raised, xic_results, examined>>

NoTarget == [mz |-> 0, charge |-> 0, rt_start |-> 0, rt_stop |-> 0,
             fragment_ions |-> <<>>]

NoCall ==
    /\ op = "none"
    /\ xpc = "idle"
    /\ target = NoTarget
    /\ start_second = 0
    /\ filtered_ms2 = <<>>
    /\ num_isotopes = 0
    /\ isotope_mzs = <<>>
    /\ raised = ""
    /\ xic_results = <<>>
    /\ examined = {}

\* no conversion under way
NoConversion ==
    /\ conv_pc = "idle"
    /\ conv_in = <<>>
    /\ conv_spectrum = <<>>
    /\ conv_out = <<>>
    /\ conv_raised = ""

\* no file written
NothingWritten ==
    /\ wr_pc = "idle"
    /\ wr_spectra = <<>>
    /\ wr_file = <<>>
    /\ wr_index = <<>>
    /\ wr_read = <<>>

\* MSObjectRust.__init__ without peaks, on the Rust backend
RustConstructed ==
    /\ rust_peaks = <<>>
    /\ python_peaks_cache = <<>>
    /\ cache_valid = FALSE
    /\ rust_op = "init"
    /\ served = <<>>

LibIdle == NoConversion /\ NothingWritten /\ RustConstructed

\* XICSExtractor.__init__
Constructed ==
    /\ pc = "start"
    /\ chunks = <<>> /\ cstate = <<>> /\ cpos = <<>> /\ cres = <<>>
    /\ reads = {} /\ finished = <<>> /\ spectra_list = <<>>
    /\ ms_objects = <<>> /\ ms1_objects = <<>> /\ ms2_objects = <<>>
    /\ ms2_objects_indices = <<>>
    /\ history = <<>>
    /\ NoCall
    /\ LibIdle

\* load_mzml reads an indexed file with parallel=True
Init ==
    /\ file \in Files
    /\ root = "indexed"
    /\ parallel = TRUE
    /\ num_processes \in Workers
    /\ Constructed

(* ------------------------- parallel read -------------------------------- *)
\* load_mzml calls reader.read(parallel=True): the index is read, cut into
\* chunks, and the chunks are submitted to the pool
ReaderRead ==
    /\ pc = "start"
    /\ root = "indexed" /\ parallel
    /\ LET ch == MakeChunks(GetOffsetList(file).index_list, num_processes)
       IN  /\ chunks' = ch
           /\ cstate' = [c \in 1..Len(ch) |-> "queued"]
           /\ cpos' = [c \in 1..Len(ch) |-> 0]
           /\ cres' = [c \in 1..Len(ch) |-> <<>>]
    /\ pc' = "mapping"
    /\ UNCHANGED <<fileVars, libVars, history, reads, finished, spectra_list, storeVars, xicVars>>

\* a free pool thread takes the oldest queued chunk and opens its own handle
StartChunk(c) ==
    /\ pc = "mapping"
    /\ cstate[c] = "queued"
    /\ \A d \in 1..(c - 1) : cstate[d] # "queued"
    /\ Cardinality({d \in DOMAIN cstate : cstate[d] = "running"}) < num_processes
    /\ cstate' = [cstate EXCEPT ![c] = "running"]
    /\ UNCHANGED <<fileVars, libVars, history, pc, chunks, cpos, cres, reads, finished,
                   spectra_list, storeVars, xicVars>>

\* one iteration of the loop of _parse_spectra_chunk; the last one returns,
\* and a read that raises ends the chunk with the exception
ReadEntry(c) ==
    /\ pc = "mapping"
    /\ cstate[c] = "running"
    /\ LET i      == cpos[c] + 1
           ol     == GetOffsetList(file)
           offset == chunks[c][i].offset
           length == ReadLength(chunks[c], i, ol.end_offset)
           data   == FileRead(FileBytes(file), offset, length)
       IN  IF ReadRaises(length)
           THEN /\ cstate' = [cstate EXCEPT ![c] = "failed"]
                /\ UNCHANGED <<reads, cres, cpos, finished>>
           ELSE /\ reads' = reads \cup {[chunk |-> c, entry |-> chunks[c][i].idRef,
                                         from |-> offset, to |-> offset + Len(data)]}
                /\ cres' = [cres EXCEPT ![c] = @ \o ParseData(file, data)]
                /\ cpos' = [cpos EXCEPT ![c] = i]
                /\ IF i = Len(chunks[c])
                   THEN /\ cstate' = [cstate EXCEPT ![c] = "done"]
                        /\ finished' = Append(finished, c)
                   ELSE UNCHANGED <<cstate, finished>>
    /\ UNCHANGED <<fileVars, libVars, history, pc, chunks, spectra_list, storeVars, xicVars>>

\* list(executor.map(...)) returns; the results are concatenated and assigned
Join ==
    /\ pc = "mapping"
    /\ JoinReady(cstate)
    /\ LET order == GatherOrder(Len(chunks), finished)
       IN  spectra_list' = Concat([k \in 1..Len(order) |-> cres[order[k]]])
    /\ pc' = "read_done"
    /\ UNCHANGED <<fileVars, libVars, history, chunks, cstate, cpos, cres, reads, finished,
                   storeVars, xicVars>>

\* list(executor.map(...)) reaches the result of a chunk that raised: the
\* chunks not yet started are cancelled, the pool is left once no chunk
\* runs, and the ValueError of the read leaves read and load_mzml
JoinFail ==
    /\ pc = "mapping"
    /\ \E c \in DOMAIN cstate :
           cstate[c] = "failed" /\ \A d \in 1..(c - 1) : cstate[d] = "done"
    /\ \A c \in DOMAIN cstate : cstate[c] # "running"
    /\ pc' = "read_error"
    /\ UNCHANGED <<fileVars, libVars, history, readerVars, storeVars, xicVars>>

(* ------------------------- the other ways through read ------------------ *)
\* Run._parse_spectra_list: every <spectrum> child of the tree, in document order
TreeParse(f) ==
    LET at == SelectSeq([k \in 1..Len(f) |-> k], LAMBDA k : f[k].kind = "spectrum")
    IN  [i \in 1..Len(at) |-> SpectrumOf(f, at[i])]

\* read: the root is not indexedmzML, or parallel is off: MZMLObject parses
\* the spectra from the XML tree
ReadTree ==
    /\ pc = "start"
    /\ root = "plain" \/ ~parallel
    /\ spectra_list' = TreeParse(file)
    /\ pc' = "read_done"
    /\ UNCHANGED <<fileVars, libVars, history, chunks, cstate, cpos, cres, reads, finished, storeVars,
                   xicVars>>

\* read with parallel on: _get_offset_list finds no indexList under the
\* indexedmzML root and raises ValueError
ReadNoIndexList ==
    /\ pc = "start"
    /\ root = "no_index_list" /\ parallel
    /\ pc' = "index_error"
    /\ UNCHANGED <<fileVars, libVars, history, readerVars, storeVars, xicVars>>

(* ------------------------- store construction --------------------------- *)
\* load_mzml: no spectra were read, ValueError
LoadFail ==
    /\ pc = "read_done"
    /\ spectra_list = <<>>
    /\ pc' = "error"
    /\ UNCHANGED <<fileVars, libVars, history, readerVars, storeVars, xicVars>>

\* load_mzml: the conversion loop, which also splits the records by level;
\* `del mzml_obj` then drops the spectra list, and the reader's locals are gone
Convert ==
    /\ pc = "read_done"
    /\ spectra_list # <<>>
    /\ \A k \in 1..Len(spectra_list) : ~DecodeRaises(spectra_list[k])
    /\ LET objs == [k \in 1..Len(spectra_list) |-> ToMSObject(spectra_list[k])]
       IN  /\ ms_objects' = Rebuilt(ms_objects, objs)
           /\ ms1_objects' = Rebuilt(ms1_objects, OfLevel(objs, 1))
           /\ ms2_objects' = Rebuilt(ms2_objects, OfLevel(objs, 2))
    /\ chunks' = <<>> /\ cstate' = <<>> /\ cpos' = <<>> /\ cres' = <<>>
    /\ reads' = {} /\ finished' = <<>> /\ spectra_list' = <<>>
    /\ pc' = "converted"
    /\ UNCHANGED <<fileVars, libVars, history, ms2_objects_indices, xicVars>>

\* load_mzml: the conversion loop reaches a spectrum whose arrays do not
\* decode; the exception of the decoder leaves load_mzml, with the records
\* converted so far in the three lists
ConvertFail ==
    /\ pc = "read_done"
    /\ \E k \in 1..Len(spectra_list) :
           /\ DecodeRaises(spectra_list[k])
           /\ \A j \in 1..(k - 1) : ~DecodeRaises(spectra_list[j])
           /\ LET objs == [j \in 1..(k - 1) |-> ToMSObject(spectra_list[j])]
              IN  /\ ms_objects' = Rebuilt(ms_objects, objs)
                  /\ ms1_objects' = Rebuilt(ms1_objects, OfLevel(objs, 1))
                  /\ ms2_objects' = Rebuilt(ms2_objects, OfLevel(objs, 2))
    /\ chunks' = <<>> /\ cstate' = <<>> /\ cpos' = <<>> /\ cres' = <<>>
    /\ reads' = {} /\ finished' = <<>> /\ spectra_list' = <<>>
    /\ pc' = "decode_error"
    /\ UNCHANGED <<fileVars, libVars, history, ms2_objects_indices, xicVars>>

\* load_mzml: the two sorts
SortLists ==
    /\ pc = "converted"
    /\ ms1_objects' = SortByRt(ms1_objects)
    /\ ms2_objects' = SortByRt(ms2_objects)
    /\ pc' = "sorted"
    /\ UNCHANGED <<fileVars, libVars, history, readerVars, ms_objects, ms2_objects_indices,
                   xicVars>>

\* load_mzml: the bucket index over ms2
BuildIndex ==
    /\ pc = "sorted"
    /\ ms2_objects_indices' = BuildIndices(ms2_objects)
    /\ pc' = "loaded"
    /\ history' = Append(history, <<ms_objects, ms1_objects, ms2_objects,
                                    BuildIndices(ms2_objects)>>)
    /\ UNCHANGED <<fileVars, libVars, readerVars, ms_objects, ms1_objects,
                   ms2_objects, xicVars>>

\* load_mzml is called again on the extractor, once the earlier call is over
LoadAgain ==
    /\ pc = "loaded"
    /\ xpc = "idle"
    /\ Len(history) < MaxLoads
    /\ pc' = "start"
    /\ UNCHANGED <<fileVars, libVars, history, readerVars, storeVars, xicVars>>

Next ==
    \/ ReaderRead
    \/ \E c \in DOMAIN chunks : StartChunk(c)
    \/ \E c \in DOMAIN chunks : ReadEntry(c)
    \/ Join
    \/ LoadFail
    \/ Convert
    \/ SortLists
    \/ BuildIndex

Spec == Init /\ [][Next]_vars

(* ------------------------- XICSExtractor: extraction -------------------- *)
Million == 1000000
PpmTolerance == 1000   \* the extractor's ppm_tolerance
IsotopeSpacing == 2    \* 1.00335483507 Da in mass units
TargetMz == 1000       \* the precursor m/z of the targets

\* a / b for b # 0, exact on the values used (b divides a)
Quot(a, b) == IF b > 0 THEN a \div b ELSE -(a \div (-b))
Abs(x) == IF x >= 0 THEN x ELSE -x

\* _calculate_isotope_mzs
CalculateIsotopeMzs(mz, charge, n) ==
    <<mz>> \o [i \in 1..(n - 1) |-> mz + Quot(i * IsotopeSpacing, charge)]

\* mz_min <= peak_mz <= mz_max with mz_min = mz * (1 - ppm / 1e6) and
\* mz_max = mz * (1 + ppm / 1e6), both sides multiplied by 1e6
InPpmWindow(peak_mz, mz, ppm) ==
    /\ mz * (Million - ppm) <= peak_mz * Million
    /\ peak_mz * Million <= mz * (Million + ppm)

\* `delta < min_delta`, min_delta = -1 standing for float('inf')
CloserAny(delta, min_delta) == TRUE
Closer(delta, min_delta) == min_delta = -1 \/ delta < min_delta

\* the inner loop over the peaks from position i (0-based) on: the index of
\* the closest peak inside the window, -1 for None
RECURSIVE ClosestFrom(_, _, _, _, _, _)
ClosestFrom(peaks, mz, ppm, i, closest_peak_idx, min_delta) ==
    IF i >= Len(peaks) THEN closest_peak_idx
    ELSE LET peak_mz == peaks[i + 1].mz
             delta   == Abs(peak_mz - mz)
         IN  IF InPpmWindow(peak_mz, mz, ppm) /\ Closer(delta, min_delta)
             THEN ClosestFrom(peaks, mz, ppm, i + 1, i, delta)
             ELSE ClosestFrom(peaks, mz, ppm, i + 1, closest_peak_idx, min_delta)

ClosestPeakIdx(peaks, mz, ppm) == ClosestFrom(peaks, mz, ppm, 0, -1, -1)

NoSamples == [rt_values |-> <<>>, intensity_values |-> <<>>, delta_sum |-> 0, count |-> 0]

\* the branch that records a matched peak
MatchedSample(acc, rt, peak, mz) ==
    [rt_values        |-> Append(acc.rt_values, rt),
     intensity_values |-> Append(acc.intensity_values, peak.intensity),
     delta_sum        |-> acc.delta_sum + Abs(peak.mz - mz),
     count            |-> acc.count + 1]

\* the branch that records a spectrum without a peak in the window
MissingSampleSkipped(acc, rt) == acc
MissingSample(acc, rt) ==
    [acc EXCEPT !.rt_values = Append(@, rt), !.intensity_values = Append(@, 0)]

\* the loop over the spectra of _extract_xic_from_ms1 / _extract_xic_from_ms2
RECURSIVE SamplesFrom(_, _, _, _, _, _, _)
SamplesFrom(objs, i, mz, rt_start, rt_stop, ppm, acc) ==
    IF i > Len(objs) THEN acc
    ELSE LET o   == objs[i]
             idx == ClosestPeakIdx(o.peaks, mz, ppm)
         IN  IF ~(rt_start <= o.retention_time /\ o.retention_time <= rt_stop)
             THEN SamplesFrom(objs, i + 1, mz, rt_start, rt_stop, ppm, acc)
             ELSE IF idx # -1
                  THEN SamplesFrom(objs, i + 1, mz, rt_start, rt_stop, ppm,
                           MatchedSample(acc, o.retention_time, o.peaks[idx + 1], mz))
                  ELSE SamplesFrom(objs, i + 1, mz, rt_start, rt_stop, ppm,
                           MissingSample(acc, o.retention_time))

XicOfAllSamples(acc, mz) ==
    [rt_array |-> acc.rt_values, intensity_array |-> acc.intensity_values,
     mz |-> mz,
     ppm_error |-> IF acc.count > 0
                   THEN [num |-> Million * acc.delta_sum,
                         den |-> mz * Len(acc.rt_values)]
                   ELSE [num |-> 0, den |-> 1],
     ion_type |-> <<"", 0>>, charge |-> 0]

\* the XICResult: ppm_error is the mean of |peak_mz - mz| / mz * 1e6 over the
\* matched samples, kept as the fraction num / den; 0 when none matched
XicOf(acc, mz) ==
    [rt_array |-> acc.rt_values, intensity_array |-> acc.intensity_values,
     mz |-> mz,
     ppm_error |-> IF acc.count > 0
                   THEN [num |-> Million * acc.delta_sum, den |-> mz * acc.count]
                   ELSE [num |-> 0, den |-> 1],
     ion_type |-> <<"", 0>>, charge |-> 0]

\* _extract_xic_from_ms1
ExtractXicFromMs1(ms1, mz, rt_start, rt_stop, ppm) ==
    XicOf(SamplesFrom(ms1, 1, mz, rt_start, rt_stop, ppm, NoSamples), mz)

Contains(window, mz) == window[1] <= mz /\ mz <= window[2]

\* _filter_ms2_by_precursor
FilterMs2ByPrecursor(ms2, precursor_mz) ==
    SelectSeq(ms2, LAMBDA o : Contains(o.isolation_window, precursor_mz))

\* start_index = self.ms2_objects_indices[start_second]
StartIndexNext(indices, second) == indices[second] + 1
StartIndex(indices, second) == indices[second]

\* the loop of _filter_ms2_by_rt_and_precursor over ms2[start_index:], from
\* position i (1-based)
RECURSIVE FilterFrom(_, _, _, _, _)
FilterFrom(ms2, i, rt_start, rt_stop, precursor_mz) ==
    IF i > Len(ms2) THEN <<>>
    ELSE LET o == ms2[i]
         IN  IF ~(rt_start <= o.retention_time /\ o.retention_time <= rt_stop)
             THEN FilterFrom(ms2, i + 1, rt_start, rt_stop, precursor_mz)
             ELSE IF ~Contains(o.isolation_window, precursor_mz)
                  THEN FilterFrom(ms2, i + 1, rt_start, rt_stop, precursor_mz)
                  ELSE IF o.retention_time > rt_stop
                       THEN <<>>
                       ELSE <<o>> \o FilterFrom(ms2, i + 1, rt_start, rt_stop, precursor_mz)

\* the positions (1-based) that the loop of _filter_ms2_by_rt_and_precursor
\* looks at, from position i: it leaves the loop only at the `break`
RECURSIVE ExaminedFrom(_, _, _, _, _)
ExaminedFrom(ms2, i, rt_start, rt_stop, precursor_mz) ==
    IF i > Len(ms2) THEN {}
    ELSE LET o == ms2[i]
         IN  IF ~(rt_start <= o.retention_time /\ o.retention_time <= rt_stop)
             THEN {i} \cup ExaminedFrom(ms2, i + 1, rt_start, rt_stop, precursor_mz)
             ELSE IF ~Contains(o.isolation_window, precursor_mz)
                  THEN {i} \cup ExaminedFrom(ms2, i + 1, rt_start, rt_stop, precursor_mz)
                  ELSE IF o.retention_time > rt_stop
                       THEN {i}
                       ELSE {i} \cup ExaminedFrom(ms2, i + 1, rt_start, rt_stop,
                                                  precursor_mz)

\* _extract_xic_from_ms2: an empty filtered list falls back to the
\* precursor-only filter over the whole of ms2
ExtractXicFromMs2(ms2, mz, precursor_mz, rt_start, rt_stop, ppm, filtered) ==
    LET ms2_list == IF filtered # <<>> THEN filtered
                    ELSE FilterMs2ByPrecursor(ms2, precursor_mz)
    IN  XicOf(SamplesFrom(ms2_list, 1, mz, rt_start, rt_stop, ppm, NoSamples), mz)

\* the arguments of the calls
WindowTimes == 0..3
Charges == {0, 1, 2}
FragmentIons == <<[ion_type |-> <<"y", 1>>, charge |-> 1, mz |-> TargetMz],
                  [ion_type |-> <<"b", 2>>, charge |-> 1, mz |-> TargetMz + 3]>>
Targets ==
    [mz : {TargetMz}, charge : Charges, rt_start : WindowTimes, rt_stop : WindowTimes,
     fragment_ions : {FragmentIons}]

\* `if not self.ms1_objects:` / `if not self.ms2_objects:`
NotLoadedNever(objs) == FALSE
NotLoaded(objs) == objs = <<>>

\* _calculate_isotope_mzs divides by charge in every round of its loop, and
\* the loop has a round as soon as num_isotopes > 1
ZeroDivision(charge, n) == charge = 0 /\ n > 1

\* a call is made on an extractor that is not inside load_mzml
Callable == pc \in {"start", "loaded"} /\ xpc = "idle"

\* extract_precursor_xics(precursor, num_isotopes)
ExtractPrecursorXics(t, n) ==
    /\ Callable
    /\ op' = "precursor"
    /\ target' = t
    /\ num_isotopes' = n
    /\ IF NotLoaded(ms1_objects)
       THEN /\ xpc' = "raised" /\ raised' = "ValueError"
            /\ isotope_mzs' = <<>>
            /\ xic_results' = <<>>
       ELSE IF ZeroDivision(t.charge, n)
       THEN /\ xpc' = "raised" /\ raised' = "ZeroDivisionError"
            /\ isotope_mzs' = <<>>
            /\ xic_results' = <<>>
       ELSE LET mzs == CalculateIsotopeMzs(t.mz, t.charge, n)
            IN  /\ xpc' = "returned" /\ raised' = ""
                /\ isotope_mzs' = mzs
                /\ xic_results' =
                       [i \in 1..Len(mzs) |->
                           [ExtractXicFromMs1(ms1_objects, mzs[i], t.rt_start,
                                              t.rt_stop, PpmTolerance)
                               EXCEPT !.ion_type = <<"M+", i - 1>>, !.charge = t.charge]]
    /\ UNCHANGED <<fileVars, libVars, history, pc, readerVars, storeVars, start_second,
                   filtered_ms2, examined>>

\* extract_fragment_xics, up to the first look at the bucket index
FragmentBegin(t) ==
    /\ Callable
    /\ op' = "fragment"
    /\ target' = t
    /\ xic_results' = <<>>
    /\ filtered_ms2' = <<>>
    /\ examined' = {}
    /\ IF NotLoaded(ms2_objects)
       THEN xpc' = "raised" /\ raised' = "ValueError" /\ UNCHANGED start_second
       ELSE xpc' = "seek" /\ raised' = "" /\ start_second' = Second(t.rt_start)
    /\ UNCHANGED <<fileVars, libVars, history, pc, readerVars, storeVars, num_isotopes, isotope_mzs>>

\* while start_second not in self.ms2_objects_indices: start_second -= 1
SeekStep ==
    /\ xpc = "seek"
    /\ start_second \notin DOMAIN ms2_objects_indices
    /\ start_second > -SeekBelow
    /\ start_second' = start_second - 1
    /\ UNCHANGED <<fileVars, libVars, history, pc, readerVars, storeVars, op, xpc, target,
                   filtered_ms2, num_isotopes, isotope_mzs, raised, xic_results,
                   examined>>

FragmentFinishTrimming ==
    /\ xpc = "seek"
    /\ start_second \in DOMAIN ms2_objects_indices
    /\ LET start_index == StartIndex(ms2_objects_indices, start_second)
           filtered    == FilterFrom(ms2_objects, start_index + 1, target.rt_start,
                                     target.rt_stop, target.mz)
       IN  /\ filtered_ms2' = filtered
           /\ examined' = ExaminedFrom(ms2_objects, start_index + 1, target.rt_start,
                                       target.rt_stop, target.mz)
           /\ ms2_objects' = filtered
           /\ xic_results' =
                  [k \in 1..Len(target.fragment_ions) |->
                      [ExtractXicFromMs2(ms2_objects, target.fragment_ions[k].mz,
                                         target.mz, target.rt_start, target.rt_stop,
                                         PpmTolerance, filtered)
                          EXCEPT !.ion_type = target.fragment_ions[k].ion_type,
                                 !.charge = target.fragment_ions[k].charge]]
    /\ xpc' = "returned"
    /\ UNCHANGED <<fileVars, libVars, history, pc, readerVars, ms_objects, ms1_objects,
                   ms2_objects_indices, op, target, start_second, num_isotopes,
                   isotope_mzs, raised>>

\* the bucket is found: the filter runs and every fragment's XIC is extracted
FragmentFinish ==
    /\ xpc = "seek"
    /\ start_second \in DOMAIN ms2_objects_indices
    /\ LET start_index == StartIndex(ms2_objects_indices, start_second)
           filtered    == FilterFrom(ms2_objects, start_index + 1, target.rt_start,
                                     target.rt_stop, target.mz)
       IN  /\ filtered_ms2' = filtered
           /\ examined' = ExaminedFrom(ms2_objects, start_index + 1, target.rt_start,
                                       target.rt_stop, target.mz)
           /\ xic_results' =
                  [k \in 1..Len(target.fragment_ions) |->
                      [ExtractXicFromMs2(ms2_objects, target.fragment_ions[k].mz,
                                         target.mz, target.rt_start, target.rt_stop,
                                         PpmTolerance, filtered)
                          EXCEPT !.ion_type = target.fragment_ions[k].ion_type,
                                 !.charge = target.fragment_ions[k].charge]]
    /\ xpc' = "returned"
    /\ UNCHANGED <<fileVars, libVars, history, pc, readerVars, storeVars, op, target, start_second,
                   num_isotopes, isotope_mzs, raised>>

\* _calculate_isotope_mzs(mz, charge, n), called on its own
CalculateIsotopes(mz, charge, n) ==
    /\ Callable
    /\ op' = "isotopes"
    /\ target' = [NoTarget EXCEPT !.mz = mz, !.charge = charge]
    /\ num_isotopes' = n
    /\ IF ZeroDivision(charge, n)
       THEN xpc' = "raised" /\ raised' = "ZeroDivisionError" /\ isotope_mzs' = <<>>
       ELSE /\ xpc' = "returned" /\ raised' = ""
            /\ isotope_mzs' = CalculateIsotopeMzs(mz, charge, n)
    /\ UNCHANGED <<fileVars, libVars, history, pc, readerVars, storeVars, start_second,
                   filtered_ms2, xic_results, examined>>

\* the caller has the result (or the exception) of its call
Return ==
    /\ xpc \in {"returned", "raised"}
    /\ op' = "none"
    /\ xpc' = "idle"
    /\ target' = NoTarget
    /\ start_second' = 0
    /\ filtered_ms2' = <<>>
    /\ num_isotopes' = 0
    /\ isotope_mzs' = <<>>
    /\ raised' = ""
    /\ xic_results' = <<>>
    /\ examined' = {}
    /\ UNCHANGED <<fileVars, libVars, history, pc, readerVars, storeVars>>

\* the extractor after load_mzml on file f
Loaded(f) ==
    LET objs == [k \in 1..Len(ParseSpectraParallel(f, 1)) |->
                    ToMSObject(ParseSpectraParallel(f, 1)[k])]
    IN  /\ file = f
        /\ root = "indexed"
        /\ parallel = TRUE
        /\ num_processes = 1
        /\ pc = "loaded"
        /\ chunks = <<>> /\ cstate = <<>> /\ cpos = <<>> /\ cres = <<>>
        /\ reads = {} /\ finished = <<>> /\ spectra_list = <<>>
        /\ ms_objects = objs
        /\ ms1_objects = SortByRt(OfLevel(objs, 1))
        /\ ms2_objects = SortByRt(OfLevel(objs, 2))
        /\ ms2_objects_indices = BuildIndices(SortByRt(OfLevel(objs, 2)))
        /\ history = <<<<objs, SortByRt(OfLevel(objs, 1)), SortByRt(OfLevel(objs, 2)),
                         BuildIndices(SortByRt(OfLevel(objs, 2)))>>>>
        /\ NoCall
        /\ LibIdle

OutPeak == [mz |-> TargetMz - 2, intensity |-> 7]
HitPeak == [mz |-> TargetMz, intensity |-> 5]
NearWindow == <<TargetMz - 5, TargetMz + 5>>
FarWindow == <<TargetMz + 100, TargetMz + 110>>

\* files of MS1 spectra: without peaks, with a peak off the target, with one on it
Ms1Entries ==
    {[kind |-> "spectrum", level |-> 1, value |-> v, unit |-> "second",
      iso |-> NoWindow, binary |-> "ok", peaks |-> ps] :
        v \in WindowTimes, ps \in {<<>>, <<OutPeak>>, <<HitPeak>>}}

\* files of MS2 spectra: isolated around the target or away from it
Ms2Entries ==
    {[kind |-> "spectrum", level |-> 2, value |-> v, unit |-> "second",
      iso |-> w, binary |-> "ok", peaks |-> ps] :
        v \in WindowTimes, w \in {NearWindow, FarWindow}, ps \in {<<>>, <<HitPeak>>}}

InitMS1 == \E f \in UNION {[1..n -> Ms1Entries] : n \in 1..MaxStored} : Loaded(f)

NextMS1 ==
    \/ \E t \in Targets, n \in 1..MaxIsotopes : ExtractPrecursorXics(t, n)
    \/ Return

SpecMS1 == InitMS1 /\ [][NextMS1]_vars

InitMS2 == \E f \in UNION {[1..n -> Ms2Entries] : n \in 1..MaxStored} : Loaded(f)

NextMS2 ==
    \/ \E t \in Targets : t.charge = 1 /\ FragmentBegin(t)
    \/ SeekStep
    \/ FragmentFinish
    \/ Return

SpecMS2 == InitMS2 /\ [][NextMS2]_vars

\* one spectrum, of either level, with any short peak list around the target
PeakChoices ==
    [mz : (TargetMz - 2)..(TargetMz + 2), intensity : {1, 2}]
PeakEntries ==
    {[kind |-> "spectrum", level |-> l, value |-> 1, unit |-> "second",
      iso |-> NearWindow, binary |-> "ok", peaks |-> ps] :
        l \in {1, 2}, ps \in UNION {[1..n -> PeakChoices] : n \in 0..MaxPeaks}}

InitPeaks == \E e \in PeakEntries : Loaded(<<e>>)

NextPeaks ==
    \/ \E t \in Targets : t.charge = 1 /\ ExtractPrecursorXics(t, 1)
    \/ \E t \in Targets : t.charge = 1 /\ FragmentBegin(t)
    \/ SeekStep
    \/ FragmentFinish
    \/ Return

SpecPeaks == InitPeaks /\ [][NextPeaks]_vars

(* ------------------------- calls before load_mzml ----------------------- *)
InitNotLoaded ==
    /\ file \in UNION {[1..n -> SpectrumEntries] : n \in 0..1}
    /\ root = "indexed"
    /\ parallel = TRUE
    /\ num_processes \in Workers
    /\ Constructed

NextNotLoaded ==
    \/ \E t \in Targets, n \in 1..MaxIsotopes : ExtractPrecursorXics(t, n)
    \/ \E t \in Targets : FragmentBegin(t)
    \/ Return

SpecNotLoaded == InitNotLoaded /\ [][NextNotLoaded]_vars

(* ------------------------- the isotope ladder alone --------------------- *)
IsotopeCharges == -2..2
IsotopeMzs == (TargetMz - 2)..(TargetMz + 2)

InitIsotopes ==
    /\ file = <<>>
    /\ root = "indexed"
    /\ parallel = TRUE
    /\ num_processes = 1
    /\ Constructed

NextIsotopes ==
    \/ \E mz \in IsotopeMzs, charge \in IsotopeCharges, n \in 0..MaxLadder :
           CalculateIsotopes(mz, charge, n)
    \/ Return

SpecIsotopes == InitIsotopes /\ [][NextIsotopes]_vars

(* ------------------------- loading any file ----------------------------- *)
Peak(mz, intensity) == [mz |-> mz, intensity |-> intensity]

\* what the two arrays of a spectrum decode to: nothing, intensities
\* -1, 0, 5, 10, or two peaks written in descending m/z
RawPeakLists ==
    {<<>>,
     <<Peak(1, -1), Peak(2, 0), Peak(3, 5), Peak(4, 10)>>,
     <<Peak(3, 5), Peak(1, 10)>>}

\* index entries whose offset lies past the end of the file
Stale == {[Gap EXCEPT !.kind = k] : k \in StaleKinds}

Roots == {"indexed", "no_index_list", "plain"}

LoadEntries ==
    {[kind |-> "spectrum", level |-> l, value |-> 0, unit |-> "second",
      iso |-> NoWindow, binary |-> "ok", peaks |-> <<>>] : l \in Levels}
    \cup {[kind |-> "spectrum", level |-> 1, value |-> 0, unit |-> "second",
           iso |-> NoWindow, binary |-> "ok", peaks |-> ps] : ps \in RawPeakLists}
    \cup {[kind |-> "spectrum", level |-> 1, value |-> 0, unit |-> "second",
           iso |-> NoWindow, binary |-> b, peaks |-> <<>>] :
              b \in {"absent"} \cup Undecodable}
    \cup {Gap} \cup Stale

\* a file without an index has no stale index entry
InitLoad ==
    /\ file \in UNION {[1..n -> LoadEntries] : n \in 0..MaxEntries}
    /\ root \in Roots
    /\ root = "indexed" \/ \A k \in 1..Len(file) : file[k].kind \notin StaleKinds
    /\ parallel \in BOOLEAN
    /\ num_processes \in {1, 2}
    /\ Constructed

NextLoad ==
    \/ Next
    \/ JoinFail
    \/ ReadTree
    \/ ReadNoIndexList
    \/ ConvertFail

SpecLoad == InitLoad /\ [][NextLoad]_vars

(* ------------------------- chunking alone ------------------------------- *)
\* _parse_spectra_parallel up to the submission of the chunks, for every
\* index length and every num_processes (read() takes it as a parameter)
PlainEntry == [kind |-> "spectrum", level |-> 1, value |-> 0, unit |-> "second",
               iso |-> NoWindow, binary |-> "ok", peaks |-> <<>>]

InitChunks ==
    /\ file \in {[k \in 1..n |-> PlainEntry] : n \in 0..MaxIndexLen}
    /\ root = "indexed"
    /\ parallel = TRUE
    /\ num_processes \in 1..MaxWorkers
    /\ Constructed

NextChunks == ReaderRead

SpecChunks == InitChunks /\ [][NextChunks]_vars

(* ------------------------- loading twice -------------------------------- *)
InitReload ==
    /\ file \in Files
    /\ root = "indexed"
    /\ parallel = TRUE
    /\ num_processes \in {1, 2}
    /\ Constructed

NextReload ==
    \/ Next
    \/ LoadAgain

SpecReload == InitReload /\ [][NextReload]_vars

(* ------------------------- SpectraConverter: MSObject <-> mzML ---------- *)
\* a float is written by the integer of its bit pattern; struct.pack('d')
\* gives its 8 bytes, low byte first
DoubleBytes == 8
FloatBytes == 4
ByteValues == 256

RECURSIVE BytesOf(_, _)
BytesOf(v, n) == IF n = 0 THEN <<>> ELSE <<v % ByteValues>> \o BytesOf(v \div ByteValues, n - 1)

RECURSIVE FromBytes(_)
FromBytes(bs) == IF bs = <<>> THEN 0 ELSE Head(bs) + ByteValues * FromBytes(Tail(bs))

\* struct.pack('d' * len(values), *values)
PackSingle(values) == Concat([k \in 1..Len(values) |-> BytesOf(values[k], FloatBytes)])
Pack(values) == Concat([k \in 1..Len(values) |-> BytesOf(values[k], DoubleBytes)])

\* struct.unpack(fmt * (len(data) // width), data) raises unless the data
\* are a whole number of values
UnpackRaises(data, width) == Len(data) % width # 0
Unpack(data, width) ==
    [k \in 1..(Len(data) \div width) |->
        FromBytes(SubSeq(data, (k - 1) * width + 1, k * width))]

\* zlib.compress: a stream that carries the payload between the zlib header
\* byte and a checksum of the payload (the shortening is left out)
ZlibHeader == 120
RECURSIVE Sum(_)
Sum(bs) == IF bs = <<>> THEN 0 ELSE Head(bs) + Sum(Tail(bs))
Checksum(bs) == (1 + Sum(bs)) % ByteValues
NoDeflate(bs) == bs
Deflate(bs) == <<ZlibHeader>> \o bs \o <<Checksum(bs)>>

\* zlib.decompress raises on anything that is not such a stream
InflateRaises(data) ==
    \/ Len(data) < 2
    \/ data[1] # ZlibHeader
    \/ data[Len(data)] # Checksum(SubSeq(data, 2, Len(data) - 1))
Inflate(data) == SubSeq(data, 2, Len(data) - 1)

\* base64.b64encode: three bytes give four characters (their 6-bit values),
\* a last group of one or two bytes is padded with '='
Pad == 64
RECURSIVE B64Encode(_)
B64Encode(bs) ==
    IF bs = <<>> THEN <<>>
    ELSE IF Len(bs) = 1
    THEN <<bs[1] \div 4, (bs[1] % 4) * 16, Pad, Pad>>
    ELSE IF Len(bs) = 2
    THEN LET n == (bs[1] * 256 + bs[2]) * 4
         IN  <<n \div 4096, (n \div 64) % 64, n % 64, Pad>>
    ELSE LET n == bs[1] * 65536 + bs[2] * 256 + bs[3]
         IN  <<n \div 262144, (n \div 4096) % 64, (n \div 64) % 64, n % 64>>
                 \o B64Encode(SubSeq(bs, 4, Len(bs)))

\* base64.b64decode raises on a text that is not whole groups of four
B64Raises(cs) == Len(cs) % 4 # 0
RECURSIVE B64Decode(_)
B64Decode(cs) ==
    IF Len(cs) < 4 THEN <<>>
    ELSE LET rest == B64Decode(SubSeq(cs, 5, Len(cs)))
         IN  IF cs[3] = Pad
             THEN <<cs[1] * 4 + cs[2] \div 16>>
             ELSE IF cs[4] = Pad
             THEN LET n == (cs[1] * 4096 + cs[2] * 64 + cs[3]) \div 4
                  IN  <<n \div 256, n % 256>>
             ELSE LET n == cs[1] * 262144 + cs[2] * 4096 + cs[3] * 64 + cs[4]
                  IN  <<n \div 65536, (n \div 256) % 256, n % 256>> \o rest

\* a CVParam, by the attributes the converter reads
Cv(accession, name, value, unit) ==
    [accession |-> accession, name |-> name, value |-> value, unit |-> unit]

\* the cv_params of a list with the given accession, in list order
WithAccession(cvs, accessions) == SelectSeq(cvs, LAMBDA c : c.accession \in accessions)

\* method_accessions.get(activation_method, 'MS:1000133')
MethodAccession(method) ==
    CASE method = "CID" -> "MS:1000133"
      [] method = "HCD" -> "MS:1000422"
      [] method = "ETD" -> "MS:1000598"
      [] method = "ECD" -> "MS:1000250"
      [] OTHER          -> "MS:1000133"

\* the accessions _mzml_to_msobject takes for an activation method
ReadMethodAccessions == {"MS:1000133", "MS:1000134", "MS:1000422", "MS:1000250"}

\* one BinaryDataArray of _msobject_to_mzml: 64-bit, zlib, base64
EncodedArray(accession, name, values) ==
    [cv_params |-> <<Cv(accession, name, 0, ""),
                     Cv("MS:1000523", "64-bit float", 0, ""),
                     Cv("MS:1000574", "zlib compression", 0, "")>>,
     binary |-> B64Encode(Deflate(Pack(values)))]

\* the Precursor of _msobject_to_mzml
EncodedPrecursor(p) ==
    [attrib |-> IF p.ref_scan_number > 0
                THEN [has_ref |-> TRUE, scan |-> p.ref_scan_number]
                ELSE [has_ref |-> FALSE, scan |-> 0],
     \* target and offsets in halves of the m/z unit: target = (low + high) / 2
     isolation_window |->
         IF p.isolation_window # NoWindow
         THEN LET target2 == p.isolation_window[1] + p.isolation_window[2]
              IN  <<Cv("MS:1000827", "isolation window target m/z", target2, "half"),
                    Cv("MS:1000828", "isolation window lower offset",
                       target2 - 2 * p.isolation_window[1], "half"),
                    Cv("MS:1000829", "isolation window upper offset",
                       2 * p.isolation_window[2] - target2, "half")>>
         ELSE <<>>,
     selected_ions |->
         IF p.mz > 0
         THEN <<<<Cv("MS:1000744", "selected ion m/z", p.mz, "")>>
                  \o (IF p.charge # 0
                      THEN <<Cv("MS:1000041", "charge state", p.charge, "")>>
                      ELSE <<>>)>>
         ELSE <<>>,
     activation |->
         (IF p.activation_method # "unknown"
          THEN <<Cv(MethodAccession(p.activation_method), p.activation_method, 0, "")>>
          ELSE <<>>)
         \o (IF p.activation_energy > 0
             THEN <<Cv("MS:1000045", "collision energy", p.activation_energy, "")>>
             ELSE <<>>)]

\* _msobject_to_mzml; the scan start time is written in minutes, here as the
\* fraction retention_time / 60 (exact, where a double rounds)
MsobjectToMzml(ms) ==
    [type |-> "MZMLSpectrum",
     attrib |-> [index |-> ms.scan_number, id |-> ms.scan_number,
                 defaultArrayLength |-> Len(ms.peaks)],
     cv_params |-> <<Cv("MS:1000511", "ms level", ms.level, "")>>,
     scan_list |->
         <<IF ms.retention_time > 0
           THEN <<Cv("MS:1000016", "scan start time",
                     [num |-> ms.retention_time, den |-> 60], "UO:0000031")>>
           ELSE <<>>>>,
     precursor_list |-> IF ms.level > 1 THEN <<EncodedPrecursor(ms.precursor)>> ELSE <<>>,
     binary_data_arrays |->
         IF ms.peaks # <<>>
         THEN <<EncodedArray("MS:1000514", "m/z array",
                             [k \in 1..Len(ms.peaks) |-> ms.peaks[k][1]]),
                EncodedArray("MS:1000515", "intensity array",
                             [k \in 1..Len(ms.peaks) |-> ms.peaks[k][2]])>>
         ELSE <<>>]

\* the value of the last cv_param with the accession, or the default
LastValue(cvs, accession, default) ==
    LET hits == WithAccession(cvs, {accession})
    IN  IF hits = <<>> THEN default ELSE hits[Len(hits)].value

\* the scan start time in seconds, by its unit
ScanStartSeconds(cvs) ==
    LET hits == WithAccession(cvs, {"MS:1000016"})
        last == hits[Len(hits)]
    IN  IF hits = <<>> THEN 0
        ELSE IF last.unit = "UO:0000031"
        THEN (last.value.num * 60) \div last.value.den
        ELSE IF last.unit = "UO:0000028"
        THEN last.value.num \div (last.value.den * 1000)
        ELSE last.value.num \div last.value.den

\* what the loop over a BinaryDataArray's cv_params finds
ArrayType(cvs) ==
    LET hits == WithAccession(cvs, {"MS:1000514", "MS:1000515"})
    IN  IF hits = <<>> THEN "" ELSE hits[Len(hits)].accession
Precision(cvs) ==
    LET hits == WithAccession(cvs, {"MS:1000521", "MS:1000523"})
    IN  IF hits = <<>> \/ hits[Len(hits)].accession = "MS:1000523"
        THEN DoubleBytes ELSE FloatBytes
Compression(cvs) == WithAccession(cvs, {"MS:1000574"}) # <<>>

\* the bytes of an array after b64decode and, when compressed, decompress
ArrayBytes(a) ==
    IF Compression(a.cv_params) THEN Inflate(B64Decode(a.binary)) ELSE B64Decode(a.binary)

\* an array is decoded when it has a type and a non-empty binary text
Decoded(a) == ArrayType(a.cv_params) # "" /\ a.binary # <<>>

ArrayRaises(a) ==
    /\ Decoded(a)
    /\ \/ B64Raises(a.binary)
       \/ Compression(a.cv_params) /\ InflateRaises(B64Decode(a.binary))
       \/ UnpackRaises(ArrayBytes(a), Precision(a.cv_params))

ArrayValues(a) == Unpack(ArrayBytes(a), Precision(a.cv_params))

\* the values of the last decoded array of the type; <<>> stands for None too
ValuesOf(arrays, accession) ==
    LET hits == SelectSeq(arrays, LAMBDA a : Decoded(a) /\ ArrayType(a.cv_params) = accession)
    IN  IF hits = <<>> THEN <<>> ELSE ArrayValues(hits[Len(hits)])

\* the peak loop of _mzml_to_msobject: zip of the two arrays
PeaksOf(sp) ==
    IF Len(sp.binary_data_arrays) >= 2
    THEN LET mz_array        == ValuesOf(sp.binary_data_arrays, "MS:1000514")
             intensity_array == ValuesOf(sp.binary_data_arrays, "MS:1000515")
         IN  [k \in 1..Min(Len(mz_array), Len(intensity_array)) |->
                 <<mz_array[k], intensity_array[k]>>]
    ELSE <<>>

PrecursorDefault ==
    [ref_scan_number |-> -1, mz |-> 0, charge |-> 0, activation_method |-> "unknown",
     activation_energy |-> 0, isolation_window |-> NoWindow]

\* the precursor branch of _mzml_to_msobject
DecodedPrecursor(p) ==
    LET method == WithAccession(p.activation, ReadMethodAccessions)
        target2 == LastValue(p.isolation_window, "MS:1000827", 0)
        low2    == LastValue(p.isolation_window, "MS:1000828", 0)
        high2   == LastValue(p.isolation_window, "MS:1000829", 0)
        ion     == IF p.selected_ions = <<>> THEN <<>> ELSE p.selected_ions[1]
    IN  [ref_scan_number |-> IF p.attrib.has_ref THEN p.attrib.scan ELSE -1,
         mz |-> LastValue(ion, "MS:1000744", 0),
         charge |-> LastValue(ion, "MS:1000041", 0),
         activation_method |-> IF method = <<>> THEN "unknown"
                               ELSE method[Len(method)].name,
         activation_energy |-> LastValue(p.activation, "MS:1000045", 0),
         isolation_window |-> <<(target2 - low2) \div 2, (target2 + high2) \div 2>>]

MzmlRaises(sp) ==
    /\ Len(sp.binary_data_arrays) >= 2
    /\ \E k \in 1..Len(sp.binary_data_arrays) : ArrayRaises(sp.binary_data_arrays[k])

\* _mzml_to_msobject
MzmlToMsobject(sp) ==
    [type |-> "MSObject",
     level |-> LET hits == WithAccession(sp.cv_params, {"MS:1000511"})
               IN  IF hits = <<>> THEN 1 ELSE hits[1].value,
     scan_number |-> IF sp.scan_list = <<>> THEN -1 ELSE sp.attrib.id,
     retention_time |-> IF sp.scan_list = <<>> THEN 0
                        ELSE ScanStartSeconds(sp.scan_list[1]),
     precursor |-> IF sp.precursor_list = <<>> THEN PrecursorDefault
                   ELSE DecodedPrecursor(sp.precursor_list[1]),
     peaks |-> PeaksOf(sp)]

\* to_msobject: the isinstance chain
SupportedSpectra == {"MZMLSpectrum", "MGFSpectrum", "MSSpectrum"}
ToMsobjectRaises(x) == x.type \notin SupportedSpectra

\* the MSObjects handed to the converter
Methods == {"unknown", "CID", "HCD", "ETD", "ECD"}
PeakValues == {<<300, 7>>, <<1, 0>>}
PeakLists == UNION {[1..n -> PeakValues] : n \in 0..MaxPeaks}
Precursors ==
    {p \in [ref_scan_number : {-1, 3}, mz : {0, 500}, charge : {0, 2},
            activation_method : Methods, activation_energy : {0, 30},
            isolation_window : {NoWindow, <<499, 502>>}] :
        p.mz = 0 => p.charge = 0}
MSObjects ==
    {[type |-> "MSObject", level |-> 1, scan_number |-> n, retention_time |-> t,
      precursor |-> PrecursorDefault, peaks |-> ps] :
        n \in {-1, 5}, t \in {0, 90}, ps \in PeakLists}
    \cup {[type |-> "MSObject", level |-> 2, scan_number |-> n, retention_time |-> t,
           precursor |-> p, peaks |-> ps] :
             n \in {-1, 5}, t \in {0, 90}, p \in Precursors, ps \in PeakLists}

\* an MSObjectRust holding peaks
RustObjects == {[type |-> "MSObjectRust", peaks |-> ps] : ps \in PeakLists}

\* SpectraConverter.to_spectra(ms, MZMLSpectrum)
ToSpectra(ms) ==
    /\ conv_pc = "idle"
    /\ conv_in' = ms
    /\ conv_spectrum' = MsobjectToMzml(ms)
    /\ conv_pc' = "encoded"
    /\ UNCHANGED <<fileVars, pc, readerVars, storeVars, xicVars, history, writerVars,
                   rustVars, conv_out, conv_raised>>

\* SpectraConverter.to_msobject(x)
ToMsobjectOf(x) ==
    /\ IF ToMsobjectRaises(x)
       THEN conv_pc' = "raised" /\ conv_raised' = "TypeError" /\ conv_out' = <<>>
       ELSE IF MzmlRaises(x)
       THEN conv_pc' = "raised" /\ conv_raised' = "DecodeError" /\ conv_out' = <<>>
       ELSE conv_pc' = "decoded" /\ conv_raised' = "" /\ conv_out' = MzmlToMsobject(x)
    /\ UNCHANGED <<fileVars, pc, readerVars, storeVars, xicVars, history, writerVars,
                   rustVars>>

\* the round trip: to_msobject on the Spectrum that to_spectra returned
ToMsobjectBack ==
    /\ conv_pc = "encoded"
    /\ ToMsobjectOf(conv_spectrum)
    /\ UNCHANGED <<conv_in, conv_spectrum>>

\* to_msobject on an MSObjectRust
ToMsobjectRust(r) ==
    /\ conv_pc = "idle"
    /\ conv_in' = r
    /\ ToMsobjectOf(r)
    /\ UNCHANGED conv_spectrum

\* the caller has the result and drops it
Converted ==
    /\ conv_pc \in {"decoded", "raised"}
    /\ conv_pc' = "idle"
    /\ conv_in' = <<>> /\ conv_spectrum' = <<>> /\ conv_out' = <<>>
    /\ conv_raised' = ""
    /\ UNCHANGED <<fileVars, pc, readerVars, storeVars, xicVars, history, writerVars,
                   rustVars>>

InitConvert ==
    /\ file = <<>>
    /\ root = "indexed"
    /\ parallel = TRUE
    /\ num_processes = 1
    /\ Constructed

NextConvert ==
    \/ \E ms \in MSObjects : ToSpectra(ms)
    \/ ToMsobjectBack
    \/ \E r \in RustObjects : ToMsobjectRust(r)
    \/ Converted

SpecConvert == InitConvert /\ [][NextConvert]_vars

(* ------------------------- MZMLWriter ----------------------------------- *)
\* one byte of a written file: a tag, a line of some other element, or the
\* indentation of one level (pretty_print=True)
Tok(t, rec) == [t |-> t, rec |-> rec]
Ws == Tok("ws", 0)

\* a line of the pretty-printed output at the given depth
Line(depth, tok) == [i \in 1..depth |-> Ws] \o <<tok>>

\* Spectrum.to_xml, serialised: the tag with its attributes, the child
\* elements, the closing tag
SpectrumXml(sp, depth) ==
    Line(depth, Tok("open", sp.id))
        \o Concat([i \in 1..sp.body |-> Line(depth + 1, Junk)])
        \o Line(depth, Tok("close", sp.id))

\* the <mzML> element with its run and spectrumList, as tree.write prints it
\* when the element stands at the given depth
MzmlXml(spectra, depth) ==
    Line(depth, Tok("mzML", 0))
        \o Line(depth + 1, Tok("run", 0))
        \o (IF spectra = <<>> THEN <<>>
            ELSE Line(depth + 2, Tok("list", 0))
                     \o Concat([k \in 1..Len(spectra) |-> SpectrumXml(spectra[k], depth + 3)])
                     \o Line(depth + 2, Tok("end", 0)))
        \o Line(depth + 1, Tok("end", 0))
        \o Line(depth, Tok("end", 0))

Declaration == Tok("xml", 0)

\* tree.write(temp_filename): the tree of the <mzML> element alone
TempFile(spectra) == <<Declaration>> \o MzmlXml(spectra, 0)

\* indexed_tree.write(filename): <indexedmzML> around the <mzML> element,
\* the index list and the checksum
IndexedFile(spectra, offsets) ==
    <<Declaration>>
        \o Line(0, Tok("indexedmzML", 0))
        \o MzmlXml(spectra, 1)
        \o Line(1, Tok("indexList", 0))
        \o Line(2, Tok("index", 0))
        \o Concat([k \in 1..Len(offsets) |-> Line(3, Tok("offset", offsets[k].idRef))])
        \o Line(2, Tok("end", 0))
        \o Line(1, Tok("end", 0))
        \o Line(1, Tok("fileChecksum", 0))
        \o Line(0, Tok("end", 0))

\* _create_index: every position of b'<spectrum ' in the content, with the id
\* of the tag found there
CreateIndexOf(content) ==
    LET at == SelectSeq([i \in 1..Len(content) |-> i], LAMBDA i : content[i].t = "open")
    IN  [k \in 1..Len(at) |-> [idRef |-> content[at[k]].rec, offset |-> at[k] - 1]]
CreateIndex(spectra) == CreateIndexOf(TempFile(spectra))

\* data.find(b'<spectrum'): the tag of a spectrum or of the spectrumList
FindSpectrum(data) ==
    LET hits == {i \in 1..Len(data) : data[i].t \in {"open", "list"}}
    IN  IF hits = {} THEN -1
        ELSE (CHOOSE i \in hits : \A j \in hits : i <= j) - 1

\* etree.fromstring(spectrum_data) succeeds on exactly one complete element
WellFormedXml(sd) ==
    /\ Len(sd) >= 2
    /\ sd[1].t = "open"
    /\ sd[Len(sd)].t = "close" /\ sd[Len(sd)].rec = sd[1].rec
    /\ \A i \in 2..(Len(sd) - 1) : sd[i].t \in {"junk", "ws"}

\* one iteration of the loop of _parse_spectra_chunk on the written file:
\* the ids of the spectra it appends
ParseWritten(data) ==
    LET spectrum_start == FindSpectrum(data)
        close_at       == Find(data, "close")
        spectrum_data  == IF close_at = -1 THEN <<>>
                          ELSE Slice(data, spectrum_start, close_at + 1)
    IN  IF spectrum_start >= 0 /\ WellFormedXml(spectrum_data)
        THEN <<spectrum_data[1].rec>>
        ELSE <<>>

RECURSIVE ParseWrittenFrom(_, _, _, _)
ParseWrittenFrom(bytes, chunk, end_offset, i) ==
    IF i > Len(chunk) THEN <<>>
    ELSE ParseWritten(FileRead(bytes, chunk[i].offset, ReadLength(chunk, i, end_offset)))
             \o ParseWrittenFrom(bytes, chunk, end_offset, i + 1)

\* MZMLReader.read(filename, parallel=True) on a written file: the ids of the
\* spectra of run.spectra_list
ReadWritten(bytes, offsets, spectra, indexed, w) ==
    IF indexed
    THEN LET ch == MakeChunks(offsets, w)
         IN  Concat([c \in 1..Len(ch) |-> ParseWrittenFrom(bytes, ch[c], Len(bytes), 1)])
    ELSE [k \in 1..Len(spectra) |-> spectra[k].id]

\* the runs handed to write: spectra with ids 1.., each with some children
MaxBody == 3
WrittenRuns ==
    UNION {{[k \in 1..n |-> [id |-> k, body |-> b[k]]] : b \in [1..n -> 1..MaxBody]} :
              n \in 0..MaxEntries}

\* MZMLWriter.write(mzml_obj, filename, write_index)
Write(spectra, write_index) ==
    /\ wr_pc = "idle"
    /\ wr_spectra' = spectra
    /\ IF write_index
       THEN /\ wr_index' = CreateIndex(spectra)
            /\ wr_file' = IndexedFile(spectra, CreateIndex(spectra))
            /\ wr_pc' = "indexed"
       ELSE /\ wr_index' = <<>>
            /\ wr_file' = TempFile(spectra)
            /\ wr_pc' = "plain"
    /\ UNCHANGED <<fileVars, pc, readerVars, storeVars, xicVars, history, convVars,
                   rustVars, wr_read>>

\* the written file is read back
ReadBack ==
    /\ wr_pc \in {"indexed", "plain"}
    /\ wr_read' = ReadWritten(wr_file, wr_index, wr_spectra, wr_pc = "indexed",
                              num_processes)
    /\ wr_pc' = IF wr_pc = "indexed" THEN "read_indexed" ELSE "read_plain"
    /\ UNCHANGED <<fileVars, pc, readerVars, storeVars, xicVars, history, convVars,
                   rustVars, wr_spectra, wr_file, wr_index>>

InitWriter ==
    /\ file = <<>>
    /\ root = "indexed"
    /\ parallel = TRUE
    /\ num_processes \in {1, 2}
    /\ Constructed

NextWriter ==
    \/ \E spectra \in WrittenRuns, write_index \in BOOLEAN : Write(spectra, write_index)
    \/ ReadBack

SpecWriter == InitWriter /\ [][NextWriter]_vars

(* ------------------------- MSObjectRust --------------------------------- *)
\* a peak is <<mz, intensity>>; an intensity is a fraction in lowest terms,
\* so that normalize can divide
RECURSIVE Gcd(_, _)
Gcd(a, b) == IF b = 0 THEN a ELSE Gcd(b, a % b)
Frac(num, den) == [num |-> num \div Gcd(num, den), den |-> den \div Gcd(num, den)]
AtLeast(x, y) == x.num * y.den >= y.num * x.den

\* the peak lists of the backend, by what each method of the wrapper asks of
\* it; the Python branch of the same method states the result
AddPeaks(peaks, added) == peaks \o added

RECURSIVE InsertByMz(_, _)
InsertByMz(sorted, p) ==
    IF sorted = <<>> THEN <<p>>
    ELSE IF sorted[Len(sorted)][1] <= p[1]
         THEN Append(sorted, p)
         ELSE Append(InsertByMz(SubSeq(sorted, 1, Len(sorted) - 1), p),
                     sorted[Len(sorted)])
RECURSIVE SortedByMzFrom(_, _)
SortedByMzFrom(peaks, acc) ==
    IF peaks = <<>> THEN acc ELSE SortedByMzFrom(Tail(peaks), InsertByMz(acc, Head(peaks)))
SortedPeaks(peaks) == SortedByMzFrom(peaks, <<>>)

FilteredByIntensity(peaks, threshold) ==
    SelectSeq(peaks, LAMBDA p : AtLeast(p[2], Frac(threshold, 1)))
FilteredByMzRange(peaks, min_mz, max_mz) ==
    SelectSeq(peaks, LAMBDA p : min_mz <= p[1] /\ p[1] <= max_mz)

\* base_peak_intensity: the largest intensity, 0 without peaks
BasePeakIntensity(peaks) ==
    IF peaks = <<>> THEN Frac(0, 1)
    ELSE LET k == CHOOSE k \in 1..Len(peaks) :
                      \A j \in 1..Len(peaks) : AtLeast(peaks[k][2], peaks[j][2])
         IN  peaks[k][2]
Normalized(peaks) ==
    LET m == BasePeakIntensity(peaks)
    IN  IF m.num > 0
        THEN [k \in 1..Len(peaks) |->
                 <<peaks[k][1], Frac(peaks[k][2].num * m.den, peaks[k][2].den * m.num)>>]
        ELSE peaks

MaxDenominator == 2   \* largest denominator of an intensity

\* `self._cache_valid = False` after a call that changes the backend's peaks
InvalidatedNever(valid) == valid
Invalidated(valid) == FALSE

\* the peaks handed to add_peak and add_peaks
RustPeakChoices == {<<2, Frac(1, 1)>>, <<1, Frac(2, 1)>>}
RustPeakLists == UNION {[1..n -> RustPeakChoices] : n \in 0..MaxPeaks}

\* a method of MSObjectRust that sets the backend's peaks to `after`
RustMutator(name, after) ==
    /\ rust_peaks' = after
    /\ cache_valid' = Invalidated(cache_valid)
    /\ rust_op' = name
    /\ UNCHANGED <<fileVars, pc, readerVars, storeVars, xicVars, history, convVars,
                   writerVars, python_peaks_cache, served>>

AddPeak(p) ==
    /\ Len(rust_peaks) < MaxPeaks
    /\ RustMutator("add_peak", AddPeaks(rust_peaks, <<p>>))

\* add_peaks returns at once on an empty list
AddPeaksCall(ps) ==
    /\ Len(rust_peaks) + Len(ps) <= MaxPeaks
    /\ IF ps = <<>>
       THEN /\ rust_op' = "add_peaks"
            /\ UNCHANGED <<fileVars, pc, readerVars, storeVars, xicVars, history, convVars,
                           writerVars, rust_peaks, python_peaks_cache, cache_valid,
                           served>>
       ELSE RustMutator("add_peaks", AddPeaks(rust_peaks, ps))

ClearPeaks == RustMutator("clear_peaks", <<>>)
SortPeaks == RustMutator("sort_peaks", SortedPeaks(rust_peaks))
FilterByIntensity(threshold) ==
    RustMutator("filter_by_intensity", FilteredByIntensity(rust_peaks, threshold))
FilterByMzRange(min_mz, max_mz) ==
    RustMutator("filter_by_mz_range", FilteredByMzRange(rust_peaks, min_mz, max_mz))
\* intensities are kept to denominators up to MaxDenominator
Normalize ==
    /\ \A k \in 1..Len(rust_peaks) : Normalized(rust_peaks)[k][2].den <= MaxDenominator
    /\ RustMutator("normalize", Normalized(rust_peaks))

\* the `peaks` property: the cache is refilled from the backend when it is
\* not valid, and a copy of the cache is returned
PeaksRead ==
    /\ python_peaks_cache' = IF cache_valid THEN python_peaks_cache ELSE rust_peaks
    /\ cache_valid' = TRUE
    /\ served' = IF cache_valid THEN python_peaks_cache ELSE rust_peaks
    /\ rust_op' = "peaks"
    /\ UNCHANGED <<fileVars, pc, readerVars, storeVars, xicVars, history, convVars,
                   writerVars, rust_peaks>>

InitRust ==
    /\ file = <<>>
    /\ root = "indexed"
    /\ parallel = TRUE
    /\ num_processes = 1
    /\ Constructed

NextRust ==
    \/ \E p \in RustPeakChoices : AddPeak(p)
    \/ \E ps \in RustPeakLists : AddPeaksCall(ps)
    \/ ClearPeaks
    \/ SortPeaks
    \/ \E threshold \in {1, 2} : FilterByIntensity(threshold)
    \/ \E min_mz \in {1, 2}, max_mz \in {1, 2} : FilterByMzRange(min_mz, max_mz)
    \/ Normalize
    \/ PeaksRead

SpecRust == InitRust /\ [][NextRust]_vars

(* ------------------------- properties: extraction ----------------------- *)
InRtWindow(o) == target.rt_start <= o.retention_time /\ o.retention_time <= target.rt_stop

\* the positions of the peaks of o inside the ppm window of mz
Inside(o, mz) ==
    {j \in 1..Len(o.peaks) : InPpmWindow(o.peaks[j].mz, mz, PpmTolerance)}

\* C1: each MS1 XIC has one sample per MS1 record whose retention time is in
\* [rt_start, rt_stop], in store order; a record without a peak in the ppm
\* window gives intensity 0 at its retention time; when no record has a
\* matching peak the intensities are all 0 and the mean ppm error is 0.
C1_OneSamplePerInWindowMs1 ==
    (op = "precursor" /\ xpc = "returned") =>
        LET inw == SelectSeq(ms1_objects, InRtWindow)
        IN  \A k \in 1..Len(xic_results) :
                LET x == xic_results[k]
                IN  /\ Len(x.rt_array) = Len(inw)
                    /\ Len(x.intensity_array) = Len(inw)
                    /\ \A i \in 1..Len(inw) :
                           /\ x.rt_array[i] = inw[i].retention_time
                           /\ Inside(inw[i], x.mz) = {} => x.intensity_array[i] = 0
                    /\ (\A i \in 1..Len(inw) : Inside(inw[i], x.mz) = {}) =>
                           x.ppm_error.num = 0

\* a window that holds some but not all MS1 records, one of them with a
\* matching peak, another one without
C1_Witness ==
    /\ op = "precursor" /\ xpc = "returned"
    /\ Len(xic_results[1].rt_array) >= 2
    /\ Len(xic_results[1].rt_array) < Len(ms1_objects)
    /\ \E i, j \in 1..Len(xic_results[1].intensity_array) :
           xic_results[1].intensity_array[i] = 0 /\ xic_results[1].intensity_array[j] > 0
    /\ \E i \in 1..Len(ms1_objects) :
           InRtWindow(ms1_objects[i]) /\ ms1_objects[i].peaks # <<>>
               /\ Inside(ms1_objects[i], TargetMz) = {}

\* C2: the sample of a spectrum that has a peak inside the ppm window is the
\* intensity of a peak inside the window whose distance to the target m/z
\* is minimal among the peaks inside; a spectrum whose peaks are all outside
\* the window gives 0, none of them being selected.  (One spectrum is
\* stored, so every sample is taken from it.)
C2_NearestPeakInsideWindow ==
    xpc = "returned" =>
        LET o == ms_objects[1]
        IN  \A k \in 1..Len(xic_results) :
                LET x  == xic_results[k]
                    in == Inside(o, x.mz)
                    d(j) == Abs(o.peaks[j].mz - x.mz)
                IN  \A i \in 1..Len(x.intensity_array) :
                        IF in = {}
                        THEN x.intensity_array[i] = 0
                        ELSE \E j \in in :
                                 /\ \A j2 \in in : d(j) <= d(j2)
                                 /\ x.intensity_array[i] = o.peaks[j].intensity

\* a sample taken from a spectrum with two peaks inside the window, the
\* nearer one first and of another intensity
C2_Witness ==
    /\ xpc = "returned"
    /\ Len(xic_results[1].intensity_array) = 1
    /\ LET o == ms_objects[1]
           mz == xic_results[1].mz
       IN  /\ Len(o.peaks) = 2
           /\ Inside(o, mz) = {1, 2}
           /\ Abs(o.peaks[1].mz - mz) < Abs(o.peaks[2].mz - mz)
           /\ o.peaks[1].intensity # o.peaks[2].intensity

\* C15: a call of either extraction method on an extractor whose load_mzml
\* was never called raises the not-loaded ValueError and gives no result.
C15_NotLoadedRaises ==
    (pc = "start" /\ op \in {"precursor", "fragment"}) =>
        /\ xpc = "raised"
        /\ raised = "ValueError"
        /\ xic_results = <<>>

\* a precursor call before the load for which the ladder would divide by
\* zero: the not-loaded test comes first
C15_Witness ==
    /\ pc = "start" /\ xpc = "raised" /\ raised = "ValueError"
    /\ op = "precursor" /\ target.charge = 0 /\ num_isotopes > 1

\* no record of the list the call reads has its retention time in the window
EmptyWindow ==
    \/ target.rt_start > target.rt_stop
    \/ \A i \in 1..Len(IF op = "precursor" THEN ms1_objects ELSE ms2_objects) :
           ~InRtWindow((IF op = "precursor" THEN ms1_objects ELSE ms2_objects)[i])

\* C16: on a loaded store a call of either extraction method with an empty
\* window or with a target of charge 0 raises nothing, and what it returns
\* holds no sample.
C16_EmptyWindowOrChargeZero ==
    (/\ pc = "loaded" /\ op \in {"precursor", "fragment"}
     /\ EmptyWindow \/ target.charge = 0) =>
        /\ xpc # "raised"
        /\ xpc = "returned" =>
               \A k \in 1..Len(xic_results) : xic_results[k].rt_array = <<>>

\* C17: for a nonzero charge the ladder has num_isotopes values, the k-th
\* being mz + k * 1.00335483507 / |charge| (k from 0): it starts at mz, never
\* decreases, and is empty for num_isotopes = 0.
C17_IsotopeLadder ==
    (op = "isotopes" /\ target.charge # 0) =>
        /\ xpc = "returned"
        /\ Len(isotope_mzs) = num_isotopes
        /\ \A k \in 0..(Len(isotope_mzs) - 1) :
               (isotope_mzs[k + 1] - target.mz) * Abs(target.charge) = k * IsotopeSpacing
        /\ \A k \in 1..(Len(isotope_mzs) - 1) : isotope_mzs[k] <= isotope_mzs[k + 1]

\* C18: with charge 0 the ladder computation fails for every count and
\* gives no m/z value.
C18_ChargeZeroFails ==
    (op = "isotopes" /\ target.charge = 0) =>
        /\ xpc = "raised"
        /\ isotope_mzs = <<>>

\* the distance to mz of the peak of o inside the window that is closest to mz
MinDelta(o, mz) ==
    CHOOSE dl \in {Abs(o.peaks[j].mz - mz) : j \in Inside(o, mz)} :
        \A j \in Inside(o, mz) : dl <= Abs(o.peaks[j].mz - mz)

\* the sum of MinDelta over the records of objs that have a peak inside
RECURSIVE SumDeltas(_, _)
SumDeltas(objs, mz) ==
    IF objs = <<>> THEN 0
    ELSE (IF Inside(Head(objs), mz) = {} THEN 0 ELSE MinDelta(Head(objs), mz))
             + SumDeltas(Tail(objs), mz)

LinearScan ==
    SelectSeq(ms2_objects,
              LAMBDA o : InRtWindow(o) /\ Contains(o.isolation_window, target.mz))

\* C3: when extract_fragment_xics returns, the index-bounded filter has
\* selected exactly the records a full scan of ms2 selects (retention time
\* in the window, isolation window around target.mz), and every fragment
\* XIC has one sample per such record, in store order.
C3_FilterEqualsLinearScan ==
    (op = "fragment" /\ xpc = "returned") =>
        /\ filtered_ms2 = LinearScan
        /\ \A k \in 1..Len(xic_results) :
               /\ xic_results[k].rt_array =
                      [i \in 1..Len(LinearScan) |-> LinearScan[i].retention_time]
               /\ Len(xic_results[k].intensity_array) = Len(LinearScan)

\* a window that starts within a second, on a store whose scan starts past
\* the first record and selects some but not all of the rest
C3_Witness ==
    /\ op = "fragment" /\ xpc = "returned"
    /\ target.rt_start % RtScale # 0
    /\ ms2_objects_indices[start_second] > 0
    /\ LinearScan # <<>>
    /\ Len(LinearScan) < Len(ms2_objects) - ms2_objects_indices[start_second]
    /\ Len(xic_results) = Len(target.fragment_ions)

(* ------------------------- properties: load ----------------------------- *)
\* load_mzml is at work: an indexed file, read with parallel on
ByLoadMzml == root = "indexed" /\ parallel

\* C11: every record load_mzml places in the store has only peaks of
\* intensity > 0, in ascending m/z order.
C11_StoredPeaksPositiveAndSorted ==
    ByLoadMzml => \A i \in 1..Len(ms_objects) :
        LET peaks == ms_objects[i].peaks
        IN  /\ \A j \in 1..Len(peaks) : peaks[j].intensity > 0
            /\ \A j \in 1..(Len(peaks) - 1) : peaks[j].mz <= peaks[j + 1].mz

\* the index entries of the file that hold a spectrum whose arrays decode
Decodable == {k \in 1..Len(file) : file[k].kind = "spectrum" /\ file[k].binary = "ok"}

\* C12: a spectrum whose binary arrays are absent or do not decode is
\* skipped: the load is never left through the decoder's exception, and the
\* loaded store holds the other records and only them.
C12_CorruptRecordSkipped ==
    ByLoadMzml =>
        /\ pc # "decode_error"
        /\ pc = "loaded" => {ms_objects[i].id : i \in 1..Len(ms_objects)} = Decodable

\* C13: reading a file without an index section fails, with parallel on or
\* off; its spectra are never parsed from the tree instead.
C13_MissingIndexFails ==
    root # "indexed" => pc \in {"start", "index_error"}

\* C14: the load of a file whose index holds an offset past the end of the
\* file never completes.
C14_TruncatedIndexFails ==
    (/\ ByLoadMzml
     /\ \E k \in 1..Len(file) :
            GetOffsetList(file).index_list[k].offset > Len(FileBytes(file)))
        => pc # "loaded"

(* ------------------------- properties: parallel read -------------------- *)
IndexList == GetOffsetList(file).index_list
EndOffset == GetOffsetList(file).end_offset

\* C4: the parallel reader yields the same spectra list with 1, 2, 4 and 8
\* workers: whatever the worker count of this load, its list is the list of
\* each of the four worker counts.
C4_SameListForEveryWorkerCount ==
    pc = "read_done" =>
        \A w \in Workers : spectra_list = ParseSpectraParallel(file, w)

\* C5: the combined list is the concatenation, in chunk order, of what
\* _parse_spectra_chunk returns for each chunk, whatever the order in which
\* the workers ran and returned.
C5_ConcatInChunkOrder ==
    pc = "read_done" =>
        spectra_list =
            Concat([c \in 1..Len(chunks) |-> ParseSpectraChunk(file, chunks[c], EndOffset)])

\* a load whose workers returned out of chunk order, each with a spectrum
C5_Witness ==
    /\ pc = "read_done"
    /\ Len(chunks) >= 2
    /\ \E i, j \in 1..Len(finished) : i < j /\ finished[i] > finished[j]
    /\ \A c \in 1..Len(chunks) : cres[c] # <<>>
    /\ \E i, j \in 1..Len(spectra_list) : spectra_list[i] # spectra_list[j]

Contiguous(chunk) ==
    \A i \in 1..(Len(chunk) - 1) : chunk[i + 1].idRef = chunk[i].idRef + 1

\* C6 as stated: exactly worker_count chunks whenever n >= worker_count >= 1,
\* each contiguous, their concatenation the index list.
C6_ExactlyWorkerCountChunks ==
    (pc = "mapping" /\ Len(file) >= num_processes) =>
        /\ Len(chunks) = num_processes
        /\ \A c \in 1..Len(chunks) : Contiguous(chunks[c])
        /\ Concat(chunks) = IndexList

\* C6 amended: the chunks are contiguous runs of chunk_size = max(1, n div w)
\* entries, the last one possibly shorter; their concatenation is the index
\* list; there are at least w of them when n >= w, and exactly w when w
\* divides n.
C6_ContiguousPartition ==
    pc = "mapping" =>
        LET n  == Len(file)
            w  == num_processes
            cs == IF n \div w >= 1 THEN n \div w ELSE 1
        IN  /\ Concat(chunks) = IndexList
            /\ \A c \in 1..Len(chunks) :
                   /\ Contiguous(chunks[c])
                   /\ Len(chunks[c]) >= 1
                   /\ Len(chunks[c]) <= cs
                   /\ c < Len(chunks) => Len(chunks[c]) = cs
            /\ n >= w => Len(chunks) >= w
            /\ (n >= w /\ n % w = 0) => Len(chunks) = w

\* an index that the worker count does not divide, cut into more chunks
C6_Witness ==
    /\ pc = "mapping"
    /\ Len(file) >= num_processes
    /\ Len(file) % num_processes # 0
    /\ Len(chunks) > num_processes

\* C7: the bytes read for index entry i are [offset_i, offset_i+1), only the
\* last entry of the index reading up to the end offset, so that the ranges
\* read by different workers never overlap.
C7_ReadsOwnRegionOnly ==
    /\ \A r \in reads :
           /\ r.from = IndexList[r.entry].offset
           /\ r.to = IF r.entry < Len(IndexList)
                     THEN IndexList[r.entry + 1].offset
                     ELSE EndOffset
    /\ \A r1, r2 \in reads :
           r1.chunk # r2.chunk => (r1.to <= r2.from \/ r2.to <= r1.from)

StoreEmpty ==
    /\ ms_objects = <<>> /\ ms1_objects = <<>> /\ ms2_objects = <<>>
    /\ ms2_objects_indices = <<>>

\* C8: while a chunk is still queued or being parsed, the combined list is
\* not assigned and store construction has not begun.
C8_JoinBarrier ==
    (\E c \in DOMAIN cstate : cstate[c] # "done") =>
        /\ pc = "mapping"
        /\ spectra_list = <<>>
        /\ StoreEmpty

\* a load of several chunks whose combined list has been assigned
C8_Witness ==
    /\ pc = "read_done"
    /\ Len(chunks) >= 2
    /\ Len(finished) = Len(chunks)
    /\ spectra_list # <<>>

(* ------------------------- properties: the store ------------------------ *)
Count(seq, x) == Cardinality({i \in 1..Len(seq) : seq[i] = x})
Range(seq) == {seq[i] : i \in 1..Len(seq)}
SameRecords(a, b) ==
    /\ Len(a) = Len(b)
    /\ \A x \in Range(a) \cup Range(b) : Count(a, x) = Count(b, x)
SortedByRt(seq) ==
    \A i \in 1..(Len(seq) - 1) : seq[i].retention_time <= seq[i + 1].retention_time

\* C9: after a load, ms1 holds exactly the loaded records of level 1 and ms2
\* exactly those of level 2, each as often as it was loaded, and both lists
\* are in non-decreasing retention time.
C9_PartitionedAndSorted ==
    pc = "loaded" =>
        /\ SameRecords(ms1_objects, OfLevel(ms_objects, 1))
        /\ SameRecords(ms2_objects, OfLevel(ms_objects, 2))
        /\ \A x \in Range(ms1_objects) : x.level = 1
        /\ \A x \in Range(ms2_objects) : x.level = 2
        /\ SortedByRt(ms1_objects)
        /\ SortedByRt(ms2_objects)

\* a load that read both levels, its MS2 records not in time order in the file
C9_Witness ==
    /\ pc = "loaded"
    /\ ms1_objects # <<>>
    /\ Len(ms2_objects) >= 2
    /\ ~SortedByRt(OfLevel(ms_objects, 2))

\* C10: the bucket index has exactly the truncated seconds of the ms2
\* records as keys; each key maps to the smallest ms2 position of its
\* bucket, and every record before that position is of an earlier bucket.
C10_BucketIndex ==
    pc = "loaded" =>
        /\ DOMAIN ms2_objects_indices =
               {Second(ms2_objects[i].retention_time) : i \in 1..Len(ms2_objects)}
        /\ \A b \in DOMAIN ms2_objects_indices :
               LET p == ms2_objects_indices[b]
               IN  /\ p \in 0..(Len(ms2_objects) - 1)
                   /\ Second(ms2_objects[p + 1].retention_time) = b
                   /\ \A j \in 0..(p - 1) :
                          Second(ms2_objects[j + 1].retention_time) < b

\* a store with two buckets, one of them holding two records
C10_Witness ==
    /\ pc = "loaded"
    /\ Cardinality(DOMAIN ms2_objects_indices) >= 2
    /\ Len(ms2_objects) > Cardinality(DOMAIN ms2_objects_indices)

(* ------------------------- properties: aborted loads -------------------- *)
\* load_mzml was left by an exception
Aborted == pc \in {"read_error", "index_error", "error", "decode_error"}

\* C21: when load_mzml is left by an exception after parsing has begun, the
\* partial results are discarded: ms_objects, ms1, ms2 and the bucket index
\* hold nothing of the aborted load (on a fresh extractor they are empty),
\* so that no later extraction can run on partial data.
C21_AbortDiscardsPartialResults ==
    (ByLoadMzml /\ Aborted) => StoreEmpty

(* ------------------------- properties: conversion ----------------------- *)
\* to_msobject is over, on the Spectrum that to_spectra made of an MSObject
RoundTripOver == conv_pc \in {"decoded", "raised"} /\ conv_in.type = "MSObject"

C23_RustObjectReturnedAsIs ==
    (conv_pc \in {"decoded", "raised"} /\ conv_in.type = "MSObjectRust") =>
        (conv_pc = "decoded" /\ conv_out = conv_in)

\* C26: for every MS2 MSObject the round trip preserves the MS level, scan
\* number, retention time, reference scan number, precursor m/z and charge,
\* isolation window, activation energy and activation method, the method
\* being any of CID, HCD, ETD, ECD.
C26_MetadataRoundTrip ==
    (RoundTripOver /\ conv_in.level = 2) =>
        /\ conv_pc = "decoded"
        /\ conv_out.level = conv_in.level
        /\ conv_out.scan_number = conv_in.scan_number
        /\ conv_out.retention_time = conv_in.retention_time
        /\ conv_out.precursor = conv_in.precursor

(* ------------------------- properties: the fragment filter -------------- *)
\* C24: the bucket lookup of extract_fragment_xics always stops. The key
\* only ever decreases and the index does not change during the call, so
\* the lookup stops exactly when a populated bucket lies at or below the key
\* it holds: that is the case whenever the lookup is under way.
C24_LookupStops ==
    xpc = "seek" => \E b \in DOMAIN ms2_objects_indices : b <= start_second

\* C25: the forward scan over ms2 stops at the first record whose retention
\* time exceeds rt_stop: no position after that record's is looked at.
C25_ScanStopsPastWindow ==
    (op = "fragment" /\ xpc = "returned") =>
        \A i \in examined, j \in examined :
            j < i => ms2_objects[j].retention_time <= target.rt_stop

(* ------------------------- properties: loaded stores -------------------- *)
\* C27: once load_mzml has completed, neither extraction method fails with
\* the not-loaded error, whatever levels the loaded file holds.
C27_NoNotLoadedErrorAfterLoad ==
    pc = "loaded" => ~(xpc = "raised" /\ raised = "ValueError")

\* C28: a further load_mzml on the same extractor and file leaves the store
\* equal to the store after the first call: the three lists hold the records
\* of the new load only, and the bucket index is the index of the new ms2.
C28_ReloadLeavesSameStore ==
    (pc = "loaded" /\ Len(history) >= 2) =>
        /\ <<ms_objects, ms1_objects, ms2_objects, ms2_objects_indices>> = history[1]
        /\ ms2_objects_indices = BuildIndices(ms2_objects)

\* a second load of a file with both levels and two MS2 spectra
C28_Witness ==
    /\ pc = "loaded"
    /\ Len(history) = 2
    /\ ms1_objects # <<>>
    /\ Len(ms2_objects) >= 2

(* ------------------------- properties: written files -------------------- *)
\* C29: in a file written with write_index=True every offset of the spectrum
\* index is the position, in that file, at which the `<spectrum ` tag of the
\* idRef'd record starts, and reading the file back through the indexed
\* parallel reader returns every written spectrum, in the written order.
C29_IndexPointsAtSpectra ==
    /\ wr_pc \in {"indexed", "read_indexed"} =>
           /\ Len(wr_index) = Len(wr_spectra)
           /\ \A k \in 1..Len(wr_index) :
                  /\ wr_index[k].idRef = wr_spectra[k].id
                  /\ wr_file[wr_index[k].offset + 1] = Tok("open", wr_index[k].idRef)
    /\ wr_pc = "read_indexed" =>
           wr_read = [k \in 1..Len(wr_spectra) |-> wr_spectra[k].id]

(* ------------------------- properties: the peaks cache ------------------ *)
\* C30: on the Rust backend, after any sequence of add_peak, add_peaks,
\* clear_peaks, sort_peaks, filter_by_intensity, filter_by_mz_range and
\* normalize calls the `peaks` property returns the backend's current peak
\* list: a cache marked valid equals the backend's peaks.
C30_CacheNeverStale ==
    /\ cache_valid => python_peaks_cache = rust_peaks
    /\ rust_op = "peaks" => served = rust_peaks

\* an earlier read filled the cache, calls since then changed the backend's
\* peaks, and the cache is marked invalid
C30_Witness ==
    /\ ~cache_valid
    /\ python_peaks_cache # <<>>
    /\ rust_peaks # <<>>
    /\ python_peaks_cache # rust_peaks

====
